---- MODULE Spec2Model ----
(***************************************************************************)
(* Model of the NC File Viewer (src/main.py): a Streamlit script that      *)
(* decodes an uploaded NetCDF payload, flattens one variable into a table, *)
(* previews it and offers it as a spreadsheet download.                    *)
(*                                                                         *)
(* Python strings are modelled as sequences of one-character strings, so   *)
(* that lower(), int() and the f-string formatting of the file name are    *)
(* computed character by character.                                        *)
(***************************************************************************)
EXTENDS Integers, Sequences, FiniteSets, TLC

(***************************************************************************)
(* Bounds of the model.                                                    *)
(***************************************************************************)
\* Largest row count of the tables handed to the export/preview harness.
MaxRows == 12

(***************************************************************************)
(* Python values.                                                          *)
(***************************************************************************)
\* None where a string is expected (var_metadata['var_name']).
PyNone == <<"<None>">>
\* None where a table, a dataset or a page part is expected.
Nothing == [none |-> TRUE]

Min(a, b) == IF a < b THEN a ELSE b
Max(a, b) == IF a > b THEN a ELSE b

Digits == <<"0", "1", "2", "3", "4", "5", "6", "7", "8", "9">>
IsDigit(c) == \E i \in 1..10 : Digits[i] = c
DigitVal(c) == (CHOOSE i \in 1..10 : Digits[i] = c) - 1

\* str.lower() on the letters the model uses.
LowerChar(c) ==
    CASE c = "A" -> "a"
      [] c = "L" -> "l"
      [] c = "X" -> "x"
      [] OTHER -> c
lower(s) == [i \in 1..Len(s) |-> LowerChar(s[i])]

\* str.strip() as int() applies it to its argument.
RECURSIVE LStrip(_)
LStrip(s) == IF s # <<>> /\ Head(s) = " " THEN LStrip(Tail(s)) ELSE s
RECURSIVE RStrip(_)
RStrip(s) ==
    IF s # <<>> /\ s[Len(s)] = " " THEN RStrip(SubSeq(s, 1, Len(s) - 1)) ELSE s
strip(s) == RStrip(LStrip(s))

\* The decimal digits of int(): digits, with single underscores between them.
WellFormedDigits(d) ==
    /\ d # <<>>
    /\ IsDigit(d[1])
    /\ IsDigit(d[Len(d)])
    /\ \A i \in 1..Len(d) : IsDigit(d[i]) \/ d[i] = "_"
    /\ \A i \in 1..(Len(d) - 1) : ~(d[i] = "_" /\ d[i + 1] = "_")

RECURSIVE DigitsValue(_)
DigitsValue(d) ==
    IF d = <<>> THEN 0
    ELSE LET last == d[Len(d)]
             rest == SubSeq(d, 1, Len(d) - 1)
         IN  IF last = "_" THEN DigitsValue(rest)
             ELSE 10 * DigitsValue(rest) + DigitVal(last)

\* int(num_rows): [ok |-> TRUE, val |-> n], or ok = FALSE for a ValueError.
int(s) ==
    LET t    == strip(s)
        neg  == t # <<>> /\ t[1] = "-"
        sign == t # <<>> /\ (t[1] = "-" \/ t[1] = "+")
        d    == IF sign THEN Tail(t) ELSE t
    IN  IF WellFormedDigits(d)
        THEN [ok |-> TRUE,
              val |-> IF neg THEN 0 - DigitsValue(d) ELSE DigitsValue(d)]
        ELSE [ok |-> FALSE, val |-> 0]

\* str(n) of an integer, as an f-string formats it.
RECURSIVE NatStr(_)
NatStr(n) ==
    IF n < 10 THEN <<Digits[n + 1]>>
    ELSE NatStr(n \div 10) \o <<Digits[(n % 10) + 1]>>
IntStr(n) == IF n < 0 THEN <<"-">> \o NatStr(0 - n) ELSE NatStr(n)

(***************************************************************************)
(* Tables (pandas DataFrames): ordered column names and ordered rows.      *)
(***************************************************************************)
\* A head that is off by one: it keeps row n + 1 as well.
head_one_more(df, n) ==
    LET k == IF n >= 0 THEN Min(n + 1, Len(df.rows))
             ELSE Max(Len(df.rows) + n, 0)
    IN  [columns |-> df.columns, rows |-> SubSeq(df.rows, 1, k)]

\* DataFrame.head(n): the first n rows; for negative n all but the last -n.
head(df, n) ==
    LET k == IF n >= 0 THEN Min(n, Len(df.rows))
             ELSE Max(Len(df.rows) + n, 0)
    IN  [columns |-> df.columns, rows |-> SubSeq(df.rows, 1, k)]

\* len(df)
len(df) == Len(df.rows)

\* DataFrame.to_excel(writer, index=False, sheet_name=...): what the serializer
\* is handed, which is what the workbook bytes hold.
to_excel(df_export, sheet_name) ==
    [sheet_name |-> sheet_name, header |-> df_export.columns,
     rows |-> df_export.rows]

\* The literals of convert_to_excel_and_download.
str_all == <<"a", "l", "l">>
str_ALL == <<"A", "L", "L">>
str_Top == <<"T", "o", "p">>
str_Top100 == <<"T", "o", "p", "1", "0", "0">>
str_xlsx == <<".", "x", "l", "s", "x">>
\* df.head(100) of the ValueError branch.
DefaultLimit == 100

\* An export window whose suffix copies the limit text instead of formatting
\* the parsed integer.
export_window_text_suffix(df, num_rows) ==
    IF lower(num_rows) = str_all
    THEN [df_export |-> df, suffix |-> str_ALL]
    ELSE LET limit == int(num_rows)
         IN  IF limit.ok
             THEN [df_export |-> head(df, limit.val),
                   suffix |-> str_Top \o num_rows]
             ELSE [df_export |-> head(df, DefaultLimit), suffix |-> str_Top100]

\* Lines 45-55: the rows to export and the file-name suffix; the suffix is
\* formatted from the parsed integer.
export_window(df, num_rows) ==
    IF lower(num_rows) = str_all
    THEN [df_export |-> df, suffix |-> str_ALL]
    ELSE LET limit == int(num_rows)
         IN  IF limit.ok
             THEN [df_export |-> head(df, limit.val),
                   suffix |-> str_Top \o IntStr(limit.val)]
             ELSE [df_export |-> head(df, DefaultLimit), suffix |-> str_Top100]

\* convert_to_excel_and_download(df, num_rows, var_name) -> (bytes, file name)
convert_to_excel_and_download(df, num_rows, var_name) ==
    LET w == export_window(df, num_rows)
    IN  [data |-> to_excel(w.df_export, var_name),
         file_name |-> var_name \o <<"_">> \o w.suffix \o str_xlsx]

\* Lines 165-171: the table handed to st.dataframe for the preview, with the
\* row count announced above it; raised when int() raises.
preview_table(df, selected_preview) ==
    IF lower(selected_preview) = str_all
    THEN [raised |-> FALSE, all |-> TRUE, limit |-> len(df), table |-> df]
    ELSE LET limit == int(selected_preview)
         IN  IF limit.ok
             THEN [raised |-> FALSE, all |-> FALSE, limit |-> limit.val,
                   table |-> head(df, limit.val)]
             ELSE [raised |-> TRUE, all |-> FALSE, limit |-> 0, table |-> Nothing]

\* The option lists of the three sidebar select boxes.
preview_options ==
    << <<"1", "0">>, <<"5", "0">>, <<"1", "0", "0">>, <<"5", "0", "0">>,
       <<"A", "l", "l">> >>
export_options ==
    << <<"A", "l", "l">>, <<"1", "0", "0", "0">>, <<"1", "0", "0", "0", "0">>,
       <<"5", "0", "0", "0", "0">> >>

Range(f) == {f[i] : i \in DOMAIN f}

(***************************************************************************)
(* Uploaded payloads and what xarray decodes them to.  A payload stands    *)
(* for one byte string; a Dataset is the ordered list of its data          *)
(* variables, each a DataArray with named axes, their coordinate values    *)
(* and the values in row-major order.                                      *)
(***************************************************************************)
NoFile == "none"

temp == <<"t", "e", "m", "p">>
k0 == <<"k">>
rain == <<"r", "a", "i", "n">>
time == <<"t", "i", "m", "e">>
station == <<"s", "t", "a", "t", "i", "o", "n">>

\* pA: temp(time: 3, station: 4) and the 0-d variable k.
DatasetA ==
    [source |-> "pA",
     data_vars |-> <<temp, k0>>,
     arrays |-> <<
        [name |-> temp,
         dims |-> << [name |-> time, coords |-> <<"t0", "t1", "t2">>],
                     [name |-> station, coords |-> <<"A", "B", "C", "D">>] >>,
         values |-> <<101, 102, 103, 104, 105, 106, 107, 108, 109, 110, 111, 112>>],
        [name |-> k0, dims |-> <<>>, values |-> <<7>>] >>]

\* pB: temp(time: 2), other values under the same variable name, and a
\* variable rain(time: 2) that pA does not have.
DatasetB ==
    [source |-> "pB",
     data_vars |-> <<temp, rain>>,
     arrays |-> <<
        [name |-> temp,
         dims |-> << [name |-> time, coords |-> <<"t0", "t1">>] >>,
         values |-> <<201, 202>>],
        [name |-> rain,
         dims |-> << [name |-> time, coords |-> <<"t0", "t1">>] >>,
         values |-> <<301, 302>>] >>]

\* pS: temp(time: 3, station: 2).
DatasetS ==
    [source |-> "pS",
     data_vars |-> <<temp>>,
     arrays |-> <<
        [name |-> temp,
         dims |-> << [name |-> time, coords |-> <<"t0", "t1", "t2">>],
                     [name |-> station, coords |-> <<"A", "B">>] >>,
         values |-> <<11, 12, 13, 14, 15, 16>>] >>]

\* pEmpty: a valid file without data variables.
DatasetEmpty == [source |-> "pEmpty", data_vars |-> <<>>, arrays |-> <<>>]

\* The payloads the model's user uploads; pBad is not a NetCDF file.
Payloads == {"pA", "pB", "pEmpty", "pBad"}

\* load_netcdf_file(file_bytes): xr.open_dataset(...).load(), or its exception.
load_netcdf_file(file_bytes) ==
    CASE file_bytes = "pA" -> [raised |-> FALSE, ds |-> DatasetA]
      [] file_bytes = "pB" -> [raised |-> FALSE, ds |-> DatasetB]
      [] file_bytes = "pS" -> [raised |-> FALSE, ds |-> DatasetS]
      [] file_bytes = "pEmpty" -> [raised |-> FALSE, ds |-> DatasetEmpty]
      [] OTHER -> [raised |-> TRUE, ds |-> Nothing]

\* list(ds.data_vars.keys())
data_vars_keys(ds) == ds.data_vars

\* ds[var]: the DataArray, or a KeyError.
ds_getitem(ds, var) ==
    IF var \in Range(ds.data_vars)
    THEN [raised |-> FALSE,
          data_array |-> ds.arrays[CHOOSE i \in DOMAIN ds.data_vars :
                                      ds.data_vars[i] = var]]
    ELSE [raised |-> TRUE, data_array |-> Nothing]

\* Product of the lengths of axes from..Len(dims).
RECURSIVE SizeFrom(_, _)
SizeFrom(dims, from) ==
    IF from > Len(dims) THEN 1
    ELSE Len(dims[from].coords) * SizeFrom(dims, from + 1)

\* A row whose every axis runs through its coordinates at stride one.
FlatRow_unit_strides(da, i) ==
    [j \in 1..(Len(da.dims) + 1) |->
        IF j <= Len(da.dims)
        THEN da.dims[j].coords[((i - 1) % Len(da.dims[j].coords)) + 1]
        ELSE da.values[i]]

\* Row i (1-based) of the flattened array: the coordinate of every axis, the
\* first axis varying slowest, then the value.
FlatRow(da, i) ==
    [j \in 1..(Len(da.dims) + 1) |->
        IF j <= Len(da.dims)
        THEN da.dims[j].coords[(((i - 1) \div SizeFrom(da.dims, j + 1))
                                  % Len(da.dims[j].coords)) + 1]
        ELSE da.values[i]]

\* DataArray.to_dataframe().reset_index(): one column per axis, then the value
\* column; xarray raises ValueError for a 0-d array.
to_dataframe(da) ==
    IF Len(da.dims) = 0
    THEN [raised |-> TRUE, df |-> Nothing]
    ELSE [raised |-> FALSE,
          df |-> [columns |-> [j \in 1..(Len(da.dims) + 1) |->
                                  IF j <= Len(da.dims) THEN da.dims[j].name
                                  ELSE da.name],
                  rows |-> [i \in 1..SizeFrom(da.dims, 1) |-> FlatRow(da, i)]]]

\* The body of convert_to_dataframe(var_name, _data_array).
convert_to_dataframe_body(var_name, data_array) == to_dataframe(data_array)

\* df[var]: the column, or a KeyError.
df_getitem(df, var) ==
    IF var \in Range(df.columns)
    THEN LET c == CHOOSE j \in DOMAIN df.columns : df.columns[j] = var
         IN  [raised |-> FALSE, col |-> [i \in 1..Len(df.rows) |-> df.rows[i][c]]]
    ELSE [raised |-> TRUE, col |-> <<>>]

RECURSIVE SeqSum(_)
SeqSum(q) == IF q = <<>> THEN 0 ELSE Head(q) + SeqSum(Tail(q))

\* Series.describe(): count, min and max of the column, and the sum its mean
\* is the quotient of (the quartiles and the deviation are left out).
describe(col) ==
    [count |-> Len(col),
     sum |-> SeqSum(col),
     min |-> IF col = <<>> THEN 0
             ELSE CHOOSE x \in Range(col) : \A y \in Range(col) : x <= y,
     max |-> IF col = <<>> THEN 0
             ELSE CHOOSE x \in Range(col) : \A y \in Range(col) : x >= y]

(***************************************************************************)
(* State.  Browser sessions run the same script against one server         *)
(* process: st.session_state and the widget values are per session, the    *)
(* two st.cache_* stores belong to the process.                            *)
(***************************************************************************)
Sessions == {"s1", "s2"}
VarNames == {temp, k0, rain}

VARIABLES
    uploaded_file,            \* per session: the payload in the uploader, or NoFile
    sidebar_var_select,       \* per session: widget value, PyNone while not rendered
    sidebar_preview_rows,     \* per session: widget value, PyNone while not rendered
    sidebar_export_rows,      \* per session: widget value, PyNone while not rendered
    processed_df,             \* st.session_state['processed_df']
    var_metadata,             \* st.session_state['var_metadata']
    show_preview_clicked,     \* st.session_state['show_preview_clicked']
    preview_configs_changed,  \* st.session_state['preview_configs_changed']
    last_preview_config,      \* st.session_state['last_preview_config'], <<>> if unset
    page,                     \* per session: what the last script run rendered
    response,                 \* per session: the download delivered by the last request
    resource_cache,           \* st.cache_resource store of load_netcdf_file
    data_cache,               \* st.cache_data store of convert_to_dataframe
    decoded_payloads,         \* per session: payloads load_netcdf_file's body ran for
    flatten_started,          \* per session: names convert_to_dataframe's body ran for
    run_log,                  \* per session: which bodies the last request ran again
    call                      \* one direct call of the export or preview function

vars ==
    <<uploaded_file, sidebar_var_select, sidebar_preview_rows, sidebar_export_rows,
      processed_df, var_metadata, show_preview_clicked, preview_configs_changed,
      last_preview_config, page, response, resource_cache, data_cache,
      decoded_payloads, flatten_started, run_log, call>>

EmptyCache == [x \in {} |-> Nothing]
CachePut(cache, key, value) ==
    [x \in (DOMAIN cache) \cup {key} |-> IF x = key THEN value ELSE cache[x]]

\* The cache keys streamlit hashes: every argument whose name has no leading
\* underscore.  load_netcdf_file(file_bytes) is keyed by the bytes,
\* convert_to_dataframe(var_name, _data_array) by the name alone.
resource_cache_key(file_bytes) == file_bytes
data_cache_key(var_name, data_array) == var_name

\* What a request logs: whether it ran the decoder for a payload the session
\* had run it for before, and the flatten body for a name the session had run
\* it for before.
NoRepeats == [decode_repeat |-> FALSE, flatten_repeat |-> FALSE]

\* Lines 17-24: the session state of a fresh session.
var_metadata_init == [var_name |-> PyNone, export_rows |-> export_options[1]]
session_state_init ==
    [processed_df |-> Nothing,
     var_metadata |-> var_metadata_init,
     show_preview_clicked |-> FALSE,
     preview_configs_changed |-> TRUE,
     last_preview_config |-> <<>>]

NoWidgets == [var |-> PyNone, preview |-> PyNone, export |-> PyNone]
BlankPage(kind) ==
    [kind |-> kind, variables |-> <<>>, button_disabled |-> TRUE, error |-> FALSE,
     shown |-> Nothing, ds_source |-> NoFile]

(***************************************************************************)
(* One run of the script, as a function of the machine it runs on:         *)
(*   ss      the session state of the running session                      *)
(*   rc, dc  the two process-wide caches                                   *)
(*   decoded, fstarted, log   the session's call history                   *)
(*   widgets the values of the sidebar widgets                             *)
(*   page    what the run renders                                          *)
(***************************************************************************)

\* Line 145: convert_to_dataframe behind @st.cache_data.  A hit returns the
\* stored table; a miss runs the body and stores its result once it returned.
cached_convert_to_dataframe(var, data_array, m) ==
    LET key == data_cache_key(var, data_array)
    IN  IF key \in DOMAIN m.dc
        THEN [raised |-> FALSE, df |-> m.dc[key], m |-> m]
        ELSE LET r  == convert_to_dataframe_body(var, data_array)
                 m1 == [m EXCEPT
                          !.fstarted = @ \cup {var},
                          !.log.flatten_repeat = @ \/ var \in m.fstarted]
             IN  IF r.raised
                 THEN [raised |-> TRUE, df |-> Nothing, m |-> m1]
                 ELSE [raised |-> FALSE, df |-> r.df,
                       m |-> [m1 EXCEPT !.dc = CachePut(@, key, r.df)]]

\* An except branch that also drops the session's table.
pipeline_failed_resets(m) ==
    [m EXCEPT !.ss.show_preview_clicked = FALSE, !.ss.processed_df = Nothing,
              !.page.error = TRUE]

\* Lines 190-192: the except branch of the preview pipeline.
pipeline_failed(m) ==
    [m EXCEPT !.ss.show_preview_clicked = FALSE, !.page.error = TRUE]

\* Statistics taken from the first ten rows instead of the whole table.
info_and_statistics_head(df, var) ==
    LET col == df_getitem(head(df, 10), var)
    IN  IF col.raised THEN [raised |-> TRUE, total_rows |-> 0, stats |-> Nothing]
        ELSE [raised |-> FALSE, total_rows |-> len(head(df, 10)),
              stats |-> describe(col.col)]

\* Lines 147-157: the row-count metric and the descriptive statistics.
info_and_statistics(df, var) ==
    LET col == df_getitem(df, var)
    IN  IF col.raised THEN [raised |-> TRUE, total_rows |-> 0, stats |-> Nothing]
        ELSE [raised |-> FALSE, total_rows |-> len(df), stats |-> describe(col.col)]

\* A download that reuses the preview limit of the sidebar.
export_option_of_preview(ss, widgets) == widgets.preview

\* Line 177: the limit spec of the download, given the session state and the
\* sidebar's values.
export_option_of(ss, widgets) == ss.var_metadata.export_rows

\* Lines 138-188: the preview pipeline, run when show_preview_clicked is set.
preview_pipeline(ds, widgets, m) ==
    LET var == m.ss.var_metadata.var_name
        got == ds_getitem(ds, var)
    IN  IF got.raised THEN pipeline_failed(m)
        ELSE
        LET c == cached_convert_to_dataframe(var, got.data_array, m)
        IN  IF c.raised THEN pipeline_failed(c.m)
            ELSE
            LET df         == c.df
                m1         == [c.m EXCEPT !.ss.processed_df = df]
                info       == info_and_statistics(df, var)
                pv         == preview_table(df, widgets.preview)
                export_option  == export_option_of(m1.ss, widgets)
                df_to_download == m1.ss.processed_df
            IN  IF info.raised \/ pv.raised THEN pipeline_failed(m1)
                ELSE [m1 EXCEPT !.page.shown =
                        [var |-> var,
                         total_rows |-> info.total_rows,
                         stats |-> info.stats,
                         preview |-> pv,
                         export_option |-> export_option,
                         download |-> convert_to_excel_and_download(
                                          df_to_download, export_option, var)]]

\* An except branch that also puts the session state back to its defaults.
decode_failed_resets(m) ==
    [m EXCEPT !.ss.processed_df = Nothing,
              !.ss.var_metadata = var_metadata_init,
              !.ss.show_preview_clicked = FALSE,
              !.widgets = NoWidgets,
              !.page = [BlankPage("decode_error") EXCEPT !.error = TRUE]]

\* Lines 199-200: the except branch of the outer try; only st.error runs, and
\* no widget of the sidebar was rendered.
decode_failed(m) ==
    [m EXCEPT !.widgets = NoWidgets,
              !.page = [BlankPage("decode_error") EXCEPT !.error = TRUE]]

\* Lines 74-209.  file is the uploader's content, w the widget values the
\* browser sends, clicked whether 'Tampilkan Pratinjau' was pressed.
RECURSIVE script(_, _, _, _)
script(file, w, clicked, m) ==
    IF file = NoFile
    THEN \* lines 203-209
         [m EXCEPT !.rc = EmptyCache,
                   !.ss.processed_df = Nothing,
                   !.ss.var_metadata = var_metadata_init,
                   !.ss.show_preview_clicked = FALSE,
                   !.widgets = NoWidgets,
                   !.page = BlankPage("no_file")]
    ELSE
    LET key    == resource_cache_key(file)
        hit    == key \in DOMAIN m.rc
        loaded == IF hit THEN [raised |-> FALSE, ds |-> m.rc[key]]
                  ELSE load_netcdf_file(file)
        m1     == IF hit THEN m
                  ELSE [m EXCEPT !.decoded = @ \cup {file},
                                 !.log.decode_repeat = @ \/ file \in m.decoded,
                                 !.rc = IF loaded.raised THEN @
                                        ELSE CachePut(@, key, loaded.ds)]
    IN  IF loaded.raised
        THEN decode_failed(m1)
        ELSE
        LET ds        == loaded.ds
            variables == data_vars_keys(ds)
        IN  IF variables = <<>>
            THEN \* lines 86-88: st.stop()
                 [m1 EXCEPT !.widgets = NoWidgets,
                            !.page = [BlankPage("no_variables") EXCEPT
                                         !.ds_source = ds.source]]
            ELSE
            LET selected_var ==
                    IF w.var \in Range(variables) THEN w.var ELSE variables[1]
                selected_preview ==
                    IF w.preview \in Range(preview_options) THEN w.preview
                    ELSE preview_options[1]
                selected_export ==
                    IF w.export \in Range(export_options) THEN w.export
                    ELSE export_options[1]
                current_config == <<selected_var, selected_preview>>
                \* lines 120-125
                m2 == [m1 EXCEPT
                         !.widgets = [var |-> selected_var,
                                      preview |-> selected_preview,
                                      export |-> selected_export],
                         !.ss.preview_configs_changed =
                             (m1.ss.last_preview_config = <<>>
                              \/ m1.ss.last_preview_config # current_config),
                         !.ss.last_preview_config = current_config]
                disabled == m2.ss.show_preview_clicked
                            /\ ~m2.ss.preview_configs_changed
            IN  IF clicked
                THEN \* lines 129-132: the state is written and st.rerun() restarts
                     script(file, m2.widgets, FALSE,
                            [m2 EXCEPT !.ss.var_metadata =
                                           [var_name |-> selected_var,
                                            export_rows |-> selected_export],
                                       !.ss.show_preview_clicked = TRUE])
                ELSE
                LET m3 == [m2 EXCEPT !.page =
                             [kind |-> "main", variables |-> variables,
                              button_disabled |-> disabled, error |-> FALSE,
                              shown |-> Nothing, ds_source |-> ds.source]]
                IN  IF m3.ss.show_preview_clicked
                    THEN preview_pipeline(ds, m3.widgets, m3)
                    ELSE m3

(***************************************************************************)
(* The user's actions.  Each triggers one run of the script in the user's  *)
(* session; the run is atomic (streamlit runs a session's script to its    *)
(* end before it takes that session's next event, and the cached           *)
(* functions take a lock per key).                                         *)
(***************************************************************************)
NoCall == [kind |-> "none"]

Machine(s) ==
    [ss |-> [processed_df |-> processed_df[s],
             var_metadata |-> var_metadata[s],
             show_preview_clicked |-> show_preview_clicked[s],
             preview_configs_changed |-> preview_configs_changed[s],
             last_preview_config |-> last_preview_config[s]],
     rc |-> resource_cache,
     dc |-> data_cache,
     decoded |-> decoded_payloads[s],
     fstarted |-> flatten_started[s],
     log |-> NoRepeats,
     widgets |-> [var |-> sidebar_var_select[s],
                  preview |-> sidebar_preview_rows[s],
                  export |-> sidebar_export_rows[s]],
     page |-> page[s]]

\* Session s ends a run on machine m with file in its uploader.
Commit(s, file, m, resp) ==
    /\ uploaded_file' = [uploaded_file EXCEPT ![s] = file]
    /\ sidebar_var_select' = [sidebar_var_select EXCEPT ![s] = m.widgets.var]
    /\ sidebar_preview_rows' = [sidebar_preview_rows EXCEPT ![s] = m.widgets.preview]
    /\ sidebar_export_rows' = [sidebar_export_rows EXCEPT ![s] = m.widgets.export]
    /\ processed_df' = [processed_df EXCEPT ![s] = m.ss.processed_df]
    /\ var_metadata' = [var_metadata EXCEPT ![s] = m.ss.var_metadata]
    /\ show_preview_clicked' =
           [show_preview_clicked EXCEPT ![s] = m.ss.show_preview_clicked]
    /\ preview_configs_changed' =
           [preview_configs_changed EXCEPT ![s] = m.ss.preview_configs_changed]
    /\ last_preview_config' =
           [last_preview_config EXCEPT ![s] = m.ss.last_preview_config]
    /\ page' = [page EXCEPT ![s] = m.page]
    /\ response' = [response EXCEPT ![s] = resp]
    /\ resource_cache' = m.rc
    /\ data_cache' = m.dc
    /\ decoded_payloads' = [decoded_payloads EXCEPT ![s] = m.decoded]
    /\ flatten_started' = [flatten_started EXCEPT ![s] = m.fstarted]
    /\ run_log' = [run_log EXCEPT ![s] = m.log]
    /\ UNCHANGED call

Widgets(s) == Machine(s).widgets

\* The options the model's user picks from: the preview options "10", "50"
\* and "All", and the export options "All" and "1000".
PreviewChoices == {preview_options[1], preview_options[2], preview_options[5]}
ExportChoices == {export_options[1], export_options[2]}

\* A file is put into the uploader, replacing the one that is there.  The
\* variable select box gets a new option list: whether it keeps a value that
\* is still an option or starts from its default depends on the streamlit
\* version, so both happen.
Upload(s, p, keep) ==
    /\ p # uploaded_file[s]
    /\ Commit(s, p,
              script(p, IF keep THEN Widgets(s)
                        ELSE [Widgets(s) EXCEPT !.var = PyNone],
                     FALSE, Machine(s)),
              Nothing)

\* The file is removed from the uploader.
RemoveFile(s) ==
    /\ uploaded_file[s] # NoFile
    /\ Commit(s, NoFile, script(NoFile, Widgets(s), FALSE, Machine(s)), Nothing)

SelectVar(s, v) ==
    /\ page[s].kind = "main"
    /\ v \in Range(page[s].variables)
    /\ v # sidebar_var_select[s]
    /\ Commit(s, uploaded_file[s],
              script(uploaded_file[s], [Widgets(s) EXCEPT !.var = v], FALSE,
                     Machine(s)),
              Nothing)

SelectPreview(s, o) ==
    /\ page[s].kind = "main"
    /\ o # sidebar_preview_rows[s]
    /\ Commit(s, uploaded_file[s],
              script(uploaded_file[s], [Widgets(s) EXCEPT !.preview = o], FALSE,
                     Machine(s)),
              Nothing)

SelectExport(s, o) ==
    /\ page[s].kind = "main"
    /\ o # sidebar_export_rows[s]
    /\ Commit(s, uploaded_file[s],
              script(uploaded_file[s], [Widgets(s) EXCEPT !.export = o], FALSE,
                     Machine(s)),
              Nothing)

\* 'Tampilkan Pratinjau' is pressed; the button must be rendered and enabled.
ClickPreview(s) ==
    /\ page[s].kind = "main"
    /\ ~page[s].button_disabled
    /\ Commit(s, uploaded_file[s],
              script(uploaded_file[s], Widgets(s), TRUE, Machine(s)),
              Nothing)

\* The download button is pressed: its callables run with the values they
\* closed over (lines 184-185), the file is delivered under the name the
\* second callable returns, and the script reruns.
ClickDownload(s) ==
    /\ page[s].kind = "main"
    /\ page[s].shown # Nothing
    /\ Commit(s, uploaded_file[s],
              script(uploaded_file[s], Widgets(s), FALSE, Machine(s)),
              page[s].shown.download)

\* Every session after its first run, with no file in the uploader.
InitSessions ==
    /\ uploaded_file = [s \in Sessions |-> NoFile]
    /\ sidebar_var_select = [s \in Sessions |-> PyNone]
    /\ sidebar_preview_rows = [s \in Sessions |-> PyNone]
    /\ sidebar_export_rows = [s \in Sessions |-> PyNone]
    /\ processed_df = [s \in Sessions |-> session_state_init.processed_df]
    /\ var_metadata = [s \in Sessions |-> session_state_init.var_metadata]
    /\ show_preview_clicked =
           [s \in Sessions |-> session_state_init.show_preview_clicked]
    /\ preview_configs_changed =
           [s \in Sessions |-> session_state_init.preview_configs_changed]
    /\ last_preview_config =
           [s \in Sessions |-> session_state_init.last_preview_config]
    /\ page = [s \in Sessions |-> BlankPage("no_file")]
    /\ response = [s \in Sessions |-> Nothing]
    /\ resource_cache = EmptyCache
    /\ data_cache = EmptyCache
    /\ decoded_payloads = [s \in Sessions |-> {}]
    /\ flatten_started = [s \in Sessions |-> {}]
    /\ run_log = [s \in Sessions |-> NoRepeats]

Init == InitSessions /\ call = NoCall

SessionNext(s) ==
    \/ \E p \in Payloads, keep \in BOOLEAN : Upload(s, p, keep)
    \/ RemoveFile(s)
    \/ \E v \in VarNames : SelectVar(s, v)
    \/ \E o \in PreviewChoices : SelectPreview(s, o)
    \/ \E o \in ExportChoices : SelectExport(s, o)
    \/ ClickPreview(s)
    \/ ClickDownload(s)

\* One user.
Next == SessionNext("s1")
Spec == Init /\ [][Next]_vars

\* Two users on the same server process, each with a payload of their own;
\* they upload it, remove it, preview and download.
PayloadOf(s) == IF s = "s1" THEN "pA" ELSE "pB"
SessionNextTwo(s) ==
    \/ \E keep \in BOOLEAN : Upload(s, PayloadOf(s), keep)
    \/ RemoveFile(s)
    \/ ClickPreview(s)
    \/ ClickDownload(s)
NextTwo == \E s \in Sessions : SessionNextTwo(s)
SpecTwo == Init /\ [][NextTwo]_vars

(***************************************************************************)
(* Direct calls of convert_to_excel_and_download and of the preview        *)
(* windowing, on tables of 0..MaxRows rows and on limit texts beyond the   *)
(* ones the select boxes offer.                                            *)
(***************************************************************************)
\* A table of n rows with the columns (time, var_name).
TableOf(n, var_name) ==
    [columns |-> <<time, var_name>>, rows |-> [i \in 1..n |-> <<i, 100 + i>>]]

LimitTexts ==
    { <<"A", "l", "l">>, <<"a", "l", "l">>, <<"A", "L", "L">>, <<"a", "L", "l">>,
      <<"2">>, <<"5">>, <<"1", "0">>, <<"5", "0">>, <<"1", "0", "0", "0">>,
      <<"0">>, <<"-", "1">>, <<"-", "5">>, <<"-", "0">>, <<"+", "3">>,
      <<" ", "2", " ">>, <<"0", "0", "7">>, <<"1", "_", "0">>,
      <<>>, <<"x">>, <<"n", "a", "n">>, <<"2", "x">>, <<"1", ".", "5">>,
      <<"-">>, <<"_", "1">>, <<"1", "_", "_", "0">>, <<"a", "l">>,
      <<" ", "a", "l", "l">> }

CallInputs ==
    {[kind |-> "export", df |-> TableOf(n, v), num_rows |-> t, var_name |-> v,
      result |-> Nothing] : n \in 0..MaxRows, t \in LimitTexts, v \in VarNames}
    \cup
    {[kind |-> "preview", df |-> TableOf(n, temp), num_rows |-> t, var_name |-> temp,
      result |-> Nothing] : n \in 0..MaxRows, t \in Range(preview_options)}

\* Arrays of 0..MaxAxes axes, each of 0..MaxLen coordinates 1, 2, ...; the
\* values are numbered in storage order.
MaxAxes == 3
MaxLen == 3
AxisNames == <<time, station, <<"l", "e", "v", "e", "l">>, <<"l", "a", "t">>,
               <<"l", "o", "n">> >>

RECURSIVE Product(_)
Product(lengths) ==
    IF lengths = <<>> THEN 1 ELSE Head(lengths) * Product(Tail(lengths))

ArrayOf(var_name, lengths) ==
    [name |-> var_name,
     dims |-> [j \in 1..Len(lengths) |->
                  [name |-> AxisNames[j], coords |-> [c \in 1..lengths[j] |-> c]]],
     values |-> [i \in 1..Product(lengths) |-> 1000 + i]]

Shapes == UNION {[1..n -> 0..MaxLen] : n \in 0..MaxAxes}

FlattenInputs ==
    {[kind |-> "flatten", var_name |-> temp, data_array |-> ArrayOf(temp, sh),
      result |-> Nothing] : sh \in Shapes}

\* The preview pipeline on a decoded dataset, with nothing cached.
PipelineInputs ==
    {[kind |-> "pipeline", ds |-> load_netcdf_file(p).ds, var_name |-> v,
      preview |-> o, export |-> e, result |-> Nothing] :
        p \in {"pA", "pB", "pS"}, v \in VarNames,
        o \in Range(preview_options), e \in Range(export_options)}

InitExport ==
    InitSessions /\ call \in CallInputs \cup FlattenInputs \cup PipelineInputs

UNCHANGED_sessions ==
    UNCHANGED <<uploaded_file, sidebar_var_select, sidebar_preview_rows,
                sidebar_export_rows, processed_df, var_metadata,
                show_preview_clicked, preview_configs_changed,
                last_preview_config, page, response, resource_cache, data_cache,
                decoded_payloads, flatten_started, run_log>>

ExportCall ==
    /\ call.kind = "export"
    /\ call.result = Nothing
    /\ call' = [call EXCEPT !.result =
                    convert_to_excel_and_download(call.df, call.num_rows,
                                                  call.var_name)]
    /\ UNCHANGED_sessions

PreviewCall ==
    /\ call.kind = "preview"
    /\ call.result = Nothing
    /\ call' = [call EXCEPT !.result = preview_table(call.df, call.num_rows)]
    /\ UNCHANGED_sessions

FlattenCall ==
    /\ call.kind = "flatten"
    /\ call.result = Nothing
    /\ call' = [call EXCEPT !.result =
                    convert_to_dataframe_body(call.var_name, call.data_array)]
    /\ UNCHANGED_sessions

\* The machine of a run that reached line 136 for the first time after the
\* button was pressed with the given selections.
PressedMachine(var_name, preview, export) ==
    [ss |-> [session_state_init EXCEPT
                !.var_metadata = [var_name |-> var_name, export_rows |-> export],
                !.show_preview_clicked = TRUE,
                !.preview_configs_changed = FALSE,
                !.last_preview_config = <<var_name, preview>>],
     rc |-> EmptyCache, dc |-> EmptyCache, decoded |-> {}, fstarted |-> {},
     log |-> NoRepeats,
     widgets |-> [var |-> var_name, preview |-> preview, export |-> export],
     page |-> BlankPage("main")]

PipelineCall ==
    /\ call.kind = "pipeline"
    /\ call.result = Nothing
    /\ call' = [call EXCEPT !.result =
                    LET m == PressedMachine(call.var_name, call.preview, call.export)
                    IN  preview_pipeline(call.ds, m.widgets, m).page]
    /\ UNCHANGED_sessions

NextExport == ExportCall \/ PreviewCall \/ FlattenCall \/ PipelineCall
SpecExport == InitExport /\ [][NextExport]_vars

(***************************************************************************)
(* What Python makes of the limit texts above, written out text by text    *)
(* and independently of the operators int, IntStr and lower.               *)
(***************************************************************************)
AllTexts ==
    { <<"A", "l", "l">>, <<"a", "l", "l">>, <<"A", "L", "L">>, <<"a", "L", "l">> }

\* The texts int() reads as a positive integer n, whose decimal form is dec.
PositiveTexts ==
    { [text |-> <<"2">>, n |-> 2, dec |-> <<"2">>],
      [text |-> <<"5">>, n |-> 5, dec |-> <<"5">>],
      [text |-> <<"1", "0">>, n |-> 10, dec |-> <<"1", "0">>],
      [text |-> <<"5", "0">>, n |-> 50, dec |-> <<"5", "0">>],
      [text |-> <<"1", "0", "0", "0">>, n |-> 1000, dec |-> <<"1", "0", "0", "0">>],
      [text |-> <<"+", "3">>, n |-> 3, dec |-> <<"3">>],
      [text |-> <<" ", "2", " ">>, n |-> 2, dec |-> <<"2">>],
      [text |-> <<"0", "0", "7">>, n |-> 7, dec |-> <<"7">>],
      [text |-> <<"1", "_", "0">>, n |-> 10, dec |-> <<"1", "0">>] }

\* The texts int() reads as zero or as a negative integer.
NonPositiveTexts == { <<"0">>, <<"-", "1">>, <<"-", "5">>, <<"-", "0">> }

\* The texts int() raises ValueError for (and that are not an 'all').
UnparsableTexts ==
    { <<>>, <<"x">>, <<"n", "a", "n">>, <<"2", "x">>, <<"1", ".", "5">>, <<"-">>,
      <<"_", "1">>, <<"1", "_", "_", "0">>, <<"a", "l">>, <<" ", "a", "l", "l">> }

FileNameWith(var_name, suffix) == var_name \o <<"_">> \o suffix \o str_xlsx

\* The first n rows of df, row by row.
IsFirstRows(rows, df, n) ==
    /\ Len(rows) = Min(n, Len(df.rows))
    /\ \A i \in 1..Len(rows) : rows[i] = df.rows[i]

ExportReturned == call.kind = "export" /\ call.result # Nothing
PreviewReturned == call.kind = "preview" /\ call.result # Nothing

\* C2: convert_to_excel_and_download names the file v_ALL.xlsx for the all-rows
\* spec, v_Top<N>.xlsx for a spec that parses as the positive integer N, and
\* v_Top100.xlsx for a spec that cannot be parsed as an integer.
C2_FileName ==
    ExportReturned =>
        /\ call.num_rows \in AllTexts =>
               call.result.file_name = FileNameWith(call.var_name, <<"A", "L", "L">>)
        /\ \A t \in PositiveTexts :
               call.num_rows = t.text =>
                   call.result.file_name =
                       FileNameWith(call.var_name, <<"T", "o", "p">> \o t.dec)
        /\ call.num_rows \in UnparsableTexts =>
               call.result.file_name =
                   FileNameWith(call.var_name, <<"T", "o", "p", "1", "0", "0">>)

\* C2 witness: the spec " 2 " has been exported as temp_Top2.xlsx.
C2_Witness ==
    /\ ExportReturned
    /\ call.num_rows = <<" ", "2", " ">>
    /\ call.var_name = temp
    /\ call.result.file_name =
           <<"t", "e", "m", "p", "_", "T", "o", "p", "2", ".", "x", "l", "s", "x">>

\* C3: a spec that parses as a non-positive integer is exported like an
\* unparsable one: the first min(100, row count) rows, under the suffix Top100.
C3_NonPositiveFallsBack ==
    (ExportReturned /\ call.num_rows \in NonPositiveTexts) =>
        /\ IsFirstRows(call.result.data.rows, call.df, 100)
        /\ call.result.file_name =
               FileNameWith(call.var_name, <<"T", "o", "p", "1", "0", "0">>)

\* C4: for the all-rows spec the preview and the serializer are handed every
\* row in the original order; for a positive integer N the first min(N, row
\* count) rows in the original order; in both cases the same columns.
C4_Window ==
    /\ ExportReturned =>
        /\ call.result.data.header = call.df.columns
        /\ call.num_rows \in AllTexts => call.result.data.rows = call.df.rows
        /\ \A t \in PositiveTexts :
               call.num_rows = t.text =>
                   IsFirstRows(call.result.data.rows, call.df, t.n)
    /\ PreviewReturned =>
        /\ ~call.result.raised
        /\ call.result.table.columns = call.df.columns
        /\ call.num_rows \in AllTexts => call.result.table.rows = call.df.rows
        /\ \A t \in PositiveTexts :
               call.num_rows = t.text =>
                   IsFirstRows(call.result.table.rows, call.df, t.n)

\* C4 witness: 12 rows exported under the spec "5" came out as 5 rows.
C4_Witness ==
    /\ ExportReturned
    /\ call.num_rows = <<"5">>
    /\ Len(call.df.rows) = 12
    /\ Len(call.result.data.rows) = 5

(***************************************************************************)
(* Properties of the sessions.                                             *)
(***************************************************************************)
\* The flattening of variable v in the dataset of payload p.
FlatteningOf(p, v) ==
    to_dataframe(ds_getitem(load_netcdf_file(p).ds, v).data_array).df

\* Session s shows a table that is the flattening of the displayed variable in
\* the payload its uploader holds.
ShowsOwnTable(s) ==
    page[s].shown # Nothing =>
        LET own == FlatteningOf(uploaded_file[s], page[s].shown.var)
        IN  /\ processed_df[s] = own
            /\ page[s].shown.total_rows = Len(own.rows)
            /\ IsFirstRows(page[s].shown.preview.table.rows, own,
                           Len(page[s].shown.preview.table.rows))
            /\ IsFirstRows(page[s].shown.download.data.rows, own,
                           Len(page[s].shown.download.data.rows))

\* C1: after a new payload is uploaded, every table previewed, summarised or
\* exported for a variable is the flattening of that variable in the loaded
\* dataset; no table flattened from a prior payload is returned.
C1_NoStaleTable == ShowsOwnTable("s1")

\* C5: an action of one session changes neither the decode-cache and
\* flatten-cache entries the other session uses nor the table the other
\* session is given, and no session is given a dataset or a table computed
\* from the other session's payload.
C5_SessionsIsolated ==
    [][\A s \in Sessions :
          SessionNextTwo(s) =>
              /\ \A t \in Sessions \ {s} :
                    /\ uploaded_file[t] \in DOMAIN resource_cache =>
                          /\ uploaded_file[t] \in DOMAIN resource_cache'
                          /\ resource_cache'[uploaded_file[t]]
                                 = resource_cache[uploaded_file[t]]
                    /\ page[t].shown # Nothing =>
                          /\ page[t].shown.var \in DOMAIN data_cache'
                          /\ data_cache'[page[t].shown.var]
                                 = data_cache[page[t].shown.var]
                    /\ processed_df'[t] = processed_df[t]
                    /\ page'[t] = page[t]
              /\ page'[s].ds_source \in {NoFile, uploaded_file'[s]}
              /\ ShowsOwnTable(s)'
      ]_vars

\* C6: within one session the body of load_netcdf_file runs at most once per
\* distinct payload: no request runs it for a payload it ran for before.
C6_DecodeOnce == ~run_log["s1"].decode_repeat

\* C7: the flatten computation of a variable runs at most once: no request
\* runs the body of convert_to_dataframe for a name it ran for before.
C7_FlattenOnce == ~run_log["s1"].flatten_repeat

\* C8: a request whose flattening or processing raises leaves the flatten
\* cache and the session's processed_df as they were before the request.
C8_FailureKeepsState ==
    [][(page'["s1"].kind = "main" /\ page'["s1"].error) =>
          /\ data_cache' = data_cache
          /\ processed_df'["s1"] = processed_df["s1"]
      ]_vars

\* C8 witness: the 0-d variable k has just failed to flatten while the session
\* holds the table of an earlier preview; k has no cache entry.
C8_Witness ==
    /\ page["s1"].kind = "main"
    /\ page["s1"].error
    /\ var_metadata["s1"].var_name = k0
    /\ uploaded_file["s1"] = "pA"
    /\ k0 \in flatten_started["s1"]
    /\ k0 \notin DOMAIN data_cache
    /\ processed_df["s1"] # Nothing

\* The download offered to session s holds the rows of the session's table
\* that the export option stored at the last press of the preview button
\* selects, under the file name of that option.
DownloadByExportOption(s) ==
    page[s].shown # Nothing =>
        LET d   == page[s].shown.download
            opt == var_metadata[s].export_rows
        IN  /\ opt \in AllTexts =>
                /\ d.data.rows = processed_df[s].rows
                /\ d.file_name = FileNameWith(page[s].shown.var, <<"A", "L", "L">>)
            /\ \A t \in PositiveTexts :
                  opt = t.text =>
                      /\ IsFirstRows(d.data.rows, processed_df[s], t.n)
                      /\ d.file_name = FileNameWith(page[s].shown.var,
                                                    <<"T", "o", "p">> \o t.dec)

\* C9: the export is windowed by the export limit and never by the preview
\* limit: a request that changes only the preview-row selection leaves the
\* exported rows and the export file name unchanged.
C9_ExportIndependent ==
    [][/\ DownloadByExportOption("s1")
       /\ ( /\ page["s1"].shown # Nothing
            /\ sidebar_preview_rows'["s1"] # sidebar_preview_rows["s1"]
            /\ sidebar_var_select'["s1"] = sidebar_var_select["s1"]
            /\ sidebar_export_rows'["s1"] = sidebar_export_rows["s1"]
            /\ uploaded_file'["s1"] = uploaded_file["s1"] )
          => /\ page'["s1"].shown # Nothing
             /\ page'["s1"].shown.download = page["s1"].shown.download
      ]_vars

\* C9 witness: the preview selection was changed after the preview was shown;
\* the preview holds 10 of the 12 rows and the download, under the export
\* option "1000", all 12.
C9_Witness ==
    /\ page["s1"].shown # Nothing
    /\ preview_configs_changed["s1"]
    /\ sidebar_preview_rows["s1"] = <<"1", "0">>
    /\ var_metadata["s1"].export_rows = <<"1", "0", "0", "0">>
    /\ Len(page["s1"].shown.preview.table.rows) = 10
    /\ Len(page["s1"].shown.download.data.rows) = 12

\* The value column of a table: the last entry of every row.
ValueColumn(df) == [i \in 1..Len(df.rows) |-> df.rows[i][Len(df.columns)]]

\* C10: the row-count metric and the statistics are those of the full table,
\* whatever the preview limit and the export limit are.
C10_StatsOverFullTable ==
    page["s1"].shown # Nothing =>
        LET full == ValueColumn(processed_df["s1"])
            st   == page["s1"].shown.stats
        IN  /\ page["s1"].shown.total_rows = Len(processed_df["s1"].rows)
            /\ st.count = Len(full)
            /\ st.sum = SeqSum(full)
            /\ \A i \in 1..Len(full) : st.min <= full[i] /\ full[i] <= st.max
            /\ \E i \in 1..Len(full) : st.min = full[i]
            /\ \E i \in 1..Len(full) : st.max = full[i]

\* C10 witness: temp of pA is shown with a preview of 10 rows; the metric
\* counts 12 rows and the maximum is the value of the twelfth.
C10_Witness ==
    /\ page["s1"].shown # Nothing
    /\ Len(page["s1"].shown.preview.table.rows) = 10
    /\ page["s1"].shown.total_rows = 12
    /\ page["s1"].shown.stats.count = 12
    /\ page["s1"].shown.stats.max = 112


(***************************************************************************)
(* C11: a run whose decode fails reports the failure, stores no entry in   *)
(* the decode cache, leaves processed_df, var_metadata and                 *)
(* show_preview_clicked as they were before the run, and renders neither a *)
(* preview nor a download.                                                 *)
(***************************************************************************)
DecodeFailedRun(s) == page[s].kind' = "decode_error"

C11_DecodeFailureLeavesState ==
    [][DecodeFailedRun("s1") =>
          /\ page["s1"].error'
          /\ page["s1"].shown' = Nothing
          /\ response["s1"]' = Nothing
          /\ resource_cache' = resource_cache
          /\ resource_cache_key(uploaded_file["s1"]') \notin DOMAIN resource_cache'
          /\ processed_df["s1"]' = processed_df["s1"]
          /\ var_metadata["s1"]' = var_metadata["s1"]
          /\ show_preview_clicked["s1"]' = show_preview_clicked["s1"]]_vars

\* The undecodable payload replaced a file whose preview was on the page.
C11_Witness ==
    /\ page["s1"].kind = "decode_error"
    /\ page["s1"].error
    /\ uploaded_file["s1"] = "pBad"
    /\ show_preview_clicked["s1"]
    /\ processed_df["s1"] # Nothing
    /\ var_metadata["s1"].var_name = temp


(***************************************************************************)
(* C12: after the processing of one variable failed, every other variable  *)
(* of the dataset can be selected, the preview button is enabled for it,   *)
(* and pressing the button produces the preview of that variable.          *)
(***************************************************************************)
\* The page of a run whose preview pipeline ended in its except branch.
PipelineFailed(s) == page[s].kind = "main" /\ page[s].error

OtherVariables(s) == Range(page[s].variables) \ {var_metadata[s].var_name}

\* The run that follows when the user selects v in the sidebar (none when v
\* is the selection already), and the run of a press of the button after it.
AfterSelecting(s, v) ==
    IF v = sidebar_var_select[s] THEN Machine(s)
    ELSE script(uploaded_file[s], [Widgets(s) EXCEPT !.var = v], FALSE, Machine(s))

AfterPressing(s, v) ==
    script(uploaded_file[s], AfterSelecting(s, v).widgets, TRUE,
           AfterSelecting(s, v))

C12_OthersUsable ==
    PipelineFailed("s1") =>
        \A v \in OtherVariables("s1") :
            /\ AfterSelecting("s1", v).widgets.var = v
            /\ ~AfterSelecting("s1", v).page.button_disabled
            /\ AfterPressing("s1", v).page.shown # Nothing
            /\ AfterPressing("s1", v).page.shown.var = v

\* The same for the variables that have at least one axis.
C12_OthersWithAxesUsable ==
    PipelineFailed("s1") =>
        \A v \in OtherVariables("s1") :
            Len(ds_getitem(resource_cache[uploaded_file["s1"]], v).data_array.dims) > 0
            => /\ ~AfterSelecting("s1", v).page.button_disabled
               /\ AfterPressing("s1", v).page.shown # Nothing
               /\ AfterPressing("s1", v).page.shown.var = v


(***************************************************************************)
(* C13: the table flattened from an array with axes of lengths l1..ln has  *)
(* l1 * ... * ln rows, exactly one row (holding only the value column)     *)
(* for a scalar array with no axes, and no two rows with the same          *)
(* coordinate tuple.                                                       *)
(***************************************************************************)
FlattenReturned == call.kind = "flatten" /\ call.result # Nothing

AxisLengths(da) == [j \in 1..Len(da.dims) |-> Len(da.dims[j].coords)]

CoordinatesOf(row, da) == SubSeq(row, 1, Len(da.dims))

C13_FlattenShape ==
    FlattenReturned =>
        LET da == call.data_array
            r  == call.result
        IN  /\ ~r.raised
            /\ Len(r.df.rows) = Product(AxisLengths(da))
            /\ Len(da.dims) = 0 =>
                   /\ Len(r.df.rows) = 1
                   /\ r.df.columns = <<da.name>>
            /\ \A i, j \in DOMAIN r.df.rows :
                   i # j => CoordinatesOf(r.df.rows[i], da)
                                # CoordinatesOf(r.df.rows[j], da)

\* The same for the arrays that have at least one axis.
C13_FlattenShapeWithAxes ==
    (FlattenReturned /\ Len(call.data_array.dims) > 0) =>
        LET da == call.data_array
            r  == call.result
        IN  /\ ~r.raised
            /\ Len(r.df.rows) = Product(AxisLengths(da))
            /\ \A i, j \in DOMAIN r.df.rows :
                   i # j => CoordinatesOf(r.df.rows[i], da)
                                # CoordinatesOf(r.df.rows[j], da)


(***************************************************************************)
(* C14: for a variable with the axes time (t0, t1, t2) and station (A, B)  *)
(* flattening yields 6 rows, and the pipeline produces from them, for the  *)
(* partition rowAxes = [time], colAxes = [station], a pivoted table of 3   *)
(* rows with a time column and the value columns A and B.                  *)
(***************************************************************************)
ScenarioReturned ==
    /\ call.kind = "pipeline"
    /\ call.result # Nothing
    /\ call.ds = DatasetS
    /\ call.var_name = temp

PivotedScenarioTable ==
    [columns |-> <<time, <<"A">>, <<"B">>>>,
     rows |-> << <<"t0", 11, 12>>, <<"t1", 13, 14>>, <<"t2", 15, 16>> >>]

FlatScenarioTable ==
    [columns |-> <<time, station, temp>>,
     rows |-> << <<"t0", "A", 11>>, <<"t0", "B", 12>>, <<"t1", "A", 13>>,
                 <<"t1", "B", 14>>, <<"t2", "A", 15>>, <<"t2", "B", 16>> >>]

PreviewDisplayed(s) == page[s].kind = "main" /\ page[s].shown # Nothing

\* The displayed preview is the one of the selected variable, cut to the
\* selected number of rows.
DisplayedIsSelected(s) ==
    /\ page[s].shown.var = sidebar_var_select[s]
    /\ page[s].shown.preview
          = preview_table(processed_df[s], sidebar_preview_rows[s])

C15_ButtonFollowsSelection ==
    PreviewDisplayed("s1") =>
        (page["s1"].button_disabled => DisplayedIsSelected("s1"))


(***************************************************************************)
(* C16: the row limit of the displayed preview is the one selected when    *)
(* the button was last pressed: a change of the preview-rows selection     *)
(* without a press of the button does not change how many rows the         *)
(* preview table shows.                                                    *)
(***************************************************************************)
PreviewRowsShown(s) == Len(page[s].shown.preview.table.rows)

C16_PreviewRowsFromPress ==
    [][(/\ PreviewDisplayed("s1")
        /\ \E o \in PreviewChoices : SelectPreview("s1", o)
        /\ PreviewDisplayed("s1")')
       => PreviewRowsShown("s1")' = PreviewRowsShown("s1")]_vars

(***************************************************************************)
(* C17: whenever the download is offered, the spreadsheet and its file     *)
(* name are built with the export-rows option that is selected in the      *)
(* sidebar at that moment.                                                 *)
(***************************************************************************)
C17_DownloadUsesSelection ==
    PreviewDisplayed("s1") =>
        /\ page["s1"].shown.export_option = sidebar_export_rows["s1"]
        /\ page["s1"].shown.download
              = convert_to_excel_and_download(processed_df["s1"],
                                              sidebar_export_rows["s1"],
                                              page["s1"].shown.var)

(***************************************************************************)
(* C18: after a run that finds no uploaded file every key of the session   *)
(* state (processed_df, var_metadata, show_preview_clicked,                *)
(* preview_configs_changed, last_preview_config) holds the value it has in *)
(* a fresh session.                                                        *)
(***************************************************************************)
SessionStateOf(s) ==
    [processed_df |-> processed_df[s],
     var_metadata |-> var_metadata[s],
     show_preview_clicked |-> show_preview_clicked[s],
     preview_configs_changed |-> preview_configs_changed[s],
     last_preview_config |-> last_preview_config[s]]

C18_NoFileResetsAll ==
    page["s1"].kind = "no_file" => SessionStateOf("s1") = session_state_init

(***************************************************************************)
(* C19: whenever the preview pipeline runs, var_metadata['var_name'] is a  *)
(* variable of the dataset that is loaded, also after the file was         *)
(* replaced by another one.                                                *)
(***************************************************************************)
\* The last run entered the pipeline: it rendered the preview or its error.
PipelineRan(s) == page[s].kind = "main" /\ (page[s].shown # Nothing \/ page[s].error)

C19_VariableOfLoadedDataset ==
    PipelineRan("s1") =>
        var_metadata["s1"].var_name
            \in Range(data_vars_keys(resource_cache[uploaded_file["s1"]]))

====
